---------------------------- MODULE Spec2Model ----------------------------
(***************************************************************************)
(* Model of the Stratum V2 client of bosminer                               *)
(* (open/bosminer/src/client/stratum_v2.rs): the handshake of run(), the   *)
(* inbound event handler task (StratumEventHandler), the shared            *)
(* current-block-height cell read by StratumJob::is_valid, and the         *)
(* foreground solution submitter (StratumSolutionHandler).                 *)
(*                                                                         *)
(* Two tasks run after the handshake: the spawned event handler task       *)
(* (position eh_pc) and run() itself, which awaits the submitter loop      *)
(* (position run_pc).  visit_set_new_prev_hash is split at the one point    *)
(* where another thread can observe it half done: after the store to the   *)
(* atomic cell and before the job is handed to the job sender.  The        *)
(* pending table is private to the handler, so the lookup, the hand-off    *)
(* and the purge that follow are one step.                                 *)
(***************************************************************************)
EXTENDS Integers, Sequences, FiniteSets, TLC

\* ------------------------------------------------------------------ bounds
\* Distinct jobs handed to the job sender in one session.
MaxJobs == 2
\* Solutions taken from the solution source in one session.
MaxSolutions == 2

\* --------------------------------------------------------------- constants
\* A u32 whose overflow matters (seq_num, min_ntime, max_time) is kept at its
\* full width as two 16-bit limbs <<high, low>>: its value is
\* high * Limb + low, below 2^32.
Limb == 65536

\* The u32 of a small natural number.
U32Of(n) == <<n \div Limb, n % Limb>>

\* Addition of two u32 modulo 2^32.
U32Add(a, b) ==
    LET low == a[2] + b[2] IN
    <<(a[1] + b[1] + (low \div Limb)) % Limb, low % Limb>>

\* Whether the sum of two u32 exceeds 2^32 - 1.
U32AddOverflows(a, b) ==
    a[1] + b[1] + ((a[2] + b[2]) \div Limb) >= Limb

\* The largest u32, 2^32 - 1.
U32Max == <<Limb - 1, Limb - 1>>

\* Values the fields of the messages are drawn from.  The block heights, the
\* job ids, the minimum times and the nonces the session's peers use are
\* fixed per run in env.
Versions == {2}
ChannelIds == {1}
MerkleRoots == {"M"}
PrevHashes == {"P"}
MinNtimes == {U32Of(1000), U32Max}
MaxNtimeOffsets == {60}
Nbits == {"B"}
MaxTargets == {"T1", "T2"}

\* Decoded messages the server can send once the connection is split.
NewMiningJob(heights, job_ids) ==
    [block_height : heights, job_id : job_ids, channel_id : ChannelIds,
     version : Versions, merkle_root : MerkleRoots]

SetNewPrevHash(heights, min_ntimes) ==
    [block_height : heights, prev_hash : PrevHashes, min_ntime : min_ntimes,
     max_ntime_offset : MaxNtimeOffsets, nbits : Nbits]

\* Kinds of message the server can answer a handshake request with.
\* "Other" stands for every kind StratumConnectionHandler has no visitor for.
ResponseKinds ==
    {"SetupMiningConnectionSuccess", "SetupMiningConnectionError",
     "OpenChannelSuccess", "OpenChannelError", "Other"}

\* What a panic does to the process: the runtime unwinds the panicking task
\* only, or the build aborts the whole process.
PanicOutcomes == {"unwind", "abort"}

VARIABLES
    env,                    \* the values the peers use, and the build profile
    run_pc,                 \* position of run() / StratumSolutionHandler::run
    eh_pc,                  \* position of event_handler_task
    requests,               \* handshake requests sent on the connection
    responses,              \* handshake responses received
    results,                \* Result of each handshake step, "Ok" / "Err"
    new_jobs,               \* StratumEventHandler.new_jobs: height -> NewMiningJob
    current_block_height,   \* the Arc<AtomicU32> shared with every StratumJob
    prevhash_msg,           \* the SetNewPrevHash being visited, or NoMsg
    published,              \* every Job handed to job_sender.send so far
    handed,                 \* the Jobs handed by the latest visit that handed any
    target,                 \* last value given to job_sender.change_target
    visited,                \* the last message the event handler visited
    purged,                 \* pending heights a confirmed higher block left behind
    source,                 \* job_solution's far end: "open" or "closed"
    seq_num,                \* StratumSolutionHandler.seq_num
    taken,                  \* solutions received from job_solution, in order
    share_msg,              \* the SubmitShares being sent, or NoMsg
    sent,                   \* SubmitShares transmitted, in order
    panics                  \* messages of the panics raised so far

hs_vars == <<requests, responses, results>>
eh_vars == <<new_jobs, current_block_height, prevhash_msg, published, handed,
            target, visited, purged>>
sh_vars == <<source, seq_num, taken, share_msg, sent>>
vars == <<env, run_pc, eh_pc, hs_vars, eh_vars, sh_vars, panics>>

NoMsg == [none |-> TRUE]
NoTarget == "none"
NoVisit == [kind |-> "none"]

\* The pending table is a function from the pending heights to announcements.
EmptyTable == [h \in {} |-> NoMsg]

\* overflow_checks is the build's setting of that name: on (the dev profile)
\* an integer addition that overflows panics, off (the release profile) it
\* wraps.

\* Two heights, one job per height.
EnvSmall ==
    [heights |-> {0, 1}, job_ids |-> {5}, min_ntimes |-> {U32Of(1000)},
     nonces |-> {7}, overflow_checks |-> TRUE]

\* The server announces three heights and re-announces jobs under a second
\* id.
EnvEvents ==
    [heights |-> {0, 1, 2}, job_ids |-> {5, 6}, min_ntimes |-> {U32Of(1000)},
     nonces |-> {7}, overflow_checks |-> TRUE]

\* The server announces two heights, re-announces jobs under a second id and
\* sends every minimum time, the largest included.
EnvOverflow ==
    [heights |-> {0, 1}, job_ids |-> {5, 6}, min_ntimes |-> MinNtimes,
     nonces |-> {7}, overflow_checks |-> TRUE]

\* Two heights, and solutions of every job handed over.
EnvSession ==
    [heights |-> {0, 1}, job_ids |-> {5, 6}, min_ntimes |-> {U32Of(1000)},
     nonces |-> {7}, overflow_checks |-> TRUE]

\* Two heights, one job per height, solutions that differ in their nonce.
EnvWrap ==
    [heights |-> {0, 1}, job_ids |-> {5}, min_ntimes |-> {U32Of(1000)},
     nonces |-> {7, 8}, overflow_checks |-> TRUE]

\* The state run() starts in.
Start ==
    /\ run_pc = "connect"
    /\ eh_pc = "unspawned"
    /\ requests = <<>>
    /\ responses = <<>>
    /\ results = <<>>
    /\ new_jobs = EmptyTable
    /\ current_block_height = 0
    /\ prevhash_msg = NoMsg
    /\ published = {}
    /\ handed = <<>>
    /\ target = NoTarget
    /\ visited = NoVisit
    /\ purged = {}
    /\ source = "open"
    /\ seq_num = U32Of(0)
    /\ taken = <<>>
    /\ share_msg = NoMsg
    /\ sent = <<>>
    /\ panics = {}

Init == Start /\ env = EnvSmall

InitEvents == Start /\ env = EnvEvents

\* Either build profile.
InitOverflow ==
    /\ Start
    /\ env \in {[EnvOverflow EXCEPT !.overflow_checks = c] : c \in BOOLEAN}

InitSession == Start /\ env = EnvSession

\* ---------------------------------------------------------------- panics
\* A panic in run(): the task unwinds, or the process aborts and takes the
\* event handler task with it.
RunPanics(outcome, message) ==
    /\ run_pc' = IF outcome = "abort" THEN "aborted" ELSE "panicked"
    /\ eh_pc' = IF outcome = "abort" THEN "aborted" ELSE eh_pc
    /\ panics' = panics \cup {message}

\* A panic in the spawned event handler task: only that task unwinds, or the
\* process aborts and takes run() with it.
EhPanics(outcome, message) ==
    /\ eh_pc' = IF outcome = "abort" THEN "aborted" ELSE "panicked"
    /\ run_pc' = IF outcome = "abort" THEN "aborted" ELSE run_pc
    /\ panics' = panics \cup {message}

\* -------------------------------------------------------------- handshake
\* A handler that starts out accepting.
StratumConnectionHandler_new_ok == "Ok"

\* StratumConnectionHandler::new: the result starts as Err(()).
StratumConnectionHandler_new == "Err"

\* The four visitors of StratumConnectionHandler; any other message kind
\* falls to the default visitor and leaves the result as it is.
StratumConnectionHandler_accept(result, kind) ==
    CASE kind = "SetupMiningConnectionSuccess" -> "Ok"
      [] kind = "SetupMiningConnectionError" -> "Err"
      [] kind = "OpenChannelSuccess" -> "Ok"
      [] kind = "OpenChannelError" -> "Err"
      [] OTHER -> result

\* StratumConnectionHandler::visit
StratumConnectionHandler_visit(kind) ==
    StratumConnectionHandler_accept(StratumConnectionHandler_new, kind)

\* run: parse the address and connect; either may fail and panic.
Connect ==
    /\ run_pc = "connect"
    /\ \E ok \in BOOLEAN, o \in PanicOutcomes :
         IF ok
         THEN /\ run_pc' = "setup_send"
              /\ UNCHANGED <<eh_pc, panics>>
         ELSE RunPanics(o, "Cannot connect to stratum server")
    /\ UNCHANGED <<env, hs_vars, eh_vars, sh_vars>>

\* setup_mining_connection: send the SetupMiningConnection request.
SetupMiningConnectionSend ==
    /\ run_pc = "setup_send"
    /\ \E ok \in BOOLEAN, o \in PanicOutcomes :
         IF ok
         THEN /\ requests' = Append(requests, "SetupMiningConnection")
              /\ run_pc' = "setup_recv"
              /\ UNCHANGED <<eh_pc, panics>>
         ELSE /\ RunPanics(o, "Cannot send stratum setup mining connection")
              /\ UNCHANGED requests
    /\ UNCHANGED <<env, responses, results, eh_vars, sh_vars>>

\* setup_mining_connection: await one response and visit it; run() expects Ok.
SetupMiningConnectionRecv ==
    /\ run_pc = "setup_recv"
    /\ \E ok \in BOOLEAN, kind \in ResponseKinds, o \in PanicOutcomes :
         IF ok
         THEN LET result == StratumConnectionHandler_visit(kind) IN
              /\ responses' = Append(responses, kind)
              /\ results' = Append(results, result)
              /\ IF result = "Ok"
                 THEN /\ run_pc' = "open_send"
                      /\ UNCHANGED <<eh_pc, panics>>
                 ELSE RunPanics(o, "Cannot setup stratum mining connection")
         ELSE /\ RunPanics(o, "Cannot receive response for stratum setup mining connection")
              /\ UNCHANGED <<responses, results>>
    /\ UNCHANGED <<env, requests, eh_vars, sh_vars>>

\* open_channel: send the OpenChannel request.
OpenChannelSend ==
    /\ run_pc = "open_send"
    /\ \E ok \in BOOLEAN, o \in PanicOutcomes :
         IF ok
         THEN /\ requests' = Append(requests, "OpenChannel")
              /\ run_pc' = "open_recv"
              /\ UNCHANGED <<eh_pc, panics>>
         ELSE /\ RunPanics(o, "Cannot send stratum open channel")
              /\ UNCHANGED requests
    /\ UNCHANGED <<env, responses, results, eh_vars, sh_vars>>

\* open_channel: await one response and visit it; run() expects Ok, then
\* splits the connection, builds the event handler (empty table, cell 0),
\* spawns its task and starts the solution handler (seq_num 0).
OpenChannelRecv ==
    /\ run_pc = "open_recv"
    /\ \E ok \in BOOLEAN, kind \in ResponseKinds, o \in PanicOutcomes :
         IF ok
         THEN LET result == StratumConnectionHandler_visit(kind) IN
              /\ responses' = Append(responses, kind)
              /\ results' = Append(results, result)
              /\ IF result = "Ok"
                 THEN /\ run_pc' = "receive"
                      /\ eh_pc' = "next"
                      /\ UNCHANGED panics
                 ELSE RunPanics(o, "Cannot open stratum channel")
         ELSE /\ RunPanics(o, "Cannot receive response for stratum open channel")
              /\ UNCHANGED <<responses, results>>
    /\ new_jobs' = EmptyTable
    /\ current_block_height' = 0
    /\ seq_num' = U32Of(0)
    /\ UNCHANGED <<env, requests, prevhash_msg, published, handed, target,
                   visited, purged, source, taken, share_msg, sent>>

\* ------------------------------------------------------------- job model
\* StratumJob::new.  The Arc handle every job carries points at the one
\* cell of the session, the variable current_block_height.
StratumJob_new(job_msg, prevhash) ==
    [id |-> job_msg.job_id,
     channel_id |-> job_msg.channel_id,
     block_height |-> job_msg.block_height,
     version |-> job_msg.version,
     prev_hash |-> prevhash.prev_hash,
     merkle_root |-> job_msg.merkle_root,
     time |-> prevhash.min_ntime,
     max_time |-> U32Add(prevhash.min_ntime, U32Of(prevhash.max_ntime_offset)),
     bits |-> prevhash.nbits]

\* The assert_eq! at the head of StratumJob::new.
StratumJob_new_asserts(job_msg, prevhash) ==
    job_msg.block_height = prevhash.block_height

\* Whether the addition that computes max_time overflows.
StratumJob_new_overflows(prevhash) ==
    U32AddOverflows(prevhash.min_ntime, U32Of(prevhash.max_ntime_offset))

\* The message of the panic of an addition that overflows.
OverflowPanic == "attempt to add with overflow"

\* A job that is stale already at its own height.
is_valid_strict(job, loaded) == job.block_height > loaded

\* StratumJob::is_valid, given the value the load of the shared cell returns.
is_valid(job, loaded) == job.block_height >= loaded

\* ------------------------------------------------- inbound event handler
\* An insert that files the value under the key after the one given.
HashMap_insert_next(table, key, value) ==
    [k \in DOMAIN table \cup {key + 1} |->
        IF k = key + 1 THEN value ELSE table[k]]

\* HashMap::insert: a new key is added, an existing key's value replaced.
HashMap_insert(table, key, value) ==
    [k \in DOMAIN table \cup {key} |-> IF k = key THEN value ELSE table[k]]

\* A lookup that leaves the entry in the table (HashMap::get).
HashMap_remove_none(table, key) == table

\* HashMap::remove_entry, the table it leaves.
HashMap_remove(table, key) ==
    [k \in DOMAIN table \ {key} |-> table[k]]

\* A retain pass that keeps no entry.
RetainKeeps_none(block_height, current) == FALSE

\* A retain pass that keeps every entry.
RetainKeeps_all(block_height, current) == TRUE

\* The predicate of the retain pass of visit_set_new_prev_hash.
RetainKeeps(block_height, current) == block_height >= current

\* HashMap::retain with that predicate.
HashMap_retain(table, current) ==
    [k \in {h \in DOMAIN table : RetainKeeps(h, current)} |-> table[k]]

\* The record of a visit: the message, and what the visit found.  A job
\* announcement found the pending entry of its height or none (replaced); a
\* new-block announcement came right after a job announcement for its own
\* height or not (announced).
JobVisit(job_msg) ==
    [kind |-> "NewMiningJob", msg |-> job_msg,
     replaced |-> IF job_msg.block_height \in DOMAIN new_jobs
                  THEN new_jobs[job_msg.block_height] ELSE NoMsg]

PrevHashVisit(msg) ==
    [kind |-> "SetNewPrevHash", msg |-> msg,
     announced |-> /\ visited.kind = "NewMiningJob"
                   /\ visited.msg.block_height = msg.block_height]

TargetVisit(max_target) == [kind |-> "SetTarget", msg |-> max_target]

\* visit_new_mining_job
VisitNewMiningJob ==
    /\ eh_pc = "next"
    /\ \E job_msg \in NewMiningJob(env.heights, env.job_ids) :
         /\ new_jobs' = HashMap_insert(new_jobs, job_msg.block_height, job_msg)
         /\ purged' = purged \ {job_msg.block_height}
         /\ visited' = JobVisit(job_msg)
    /\ UNCHANGED <<env, run_pc, eh_pc, hs_vars, current_block_height,
                   prevhash_msg, published, handed, target, sh_vars, panics>>

\* A visit that never moves the shared cell back (fetch_max).
StoredHeight_max(msg, old) ==
    IF msg.block_height > old THEN msg.block_height ELSE old

\* A visit that leaves the shared cell as it was.
StoredHeight_stale(msg, old) == old

\* The height visit_set_new_prev_hash stores into the shared cell.
StoredHeight(msg, old) == msg.block_height

\* Whether visiting msg would hand over a job not handed over before.
WouldPublish(msg) ==
    /\ msg.block_height \in DOMAIN new_jobs
    /\ StratumJob_new(new_jobs[msg.block_height], msg) \notin published

\* visit_set_new_prev_hash, up to the store to the shared cell.
VisitSetNewPrevHashStore ==
    /\ eh_pc = "next"
    /\ \E msg \in SetNewPrevHash(env.heights, env.min_ntimes) :
         /\ Cardinality(published) < MaxJobs \/ ~WouldPublish(msg)
         /\ prevhash_msg' = msg
         /\ current_block_height' = StoredHeight(msg, current_block_height)
    /\ eh_pc' = "stored"
    /\ UNCHANGED <<env, run_pc, hs_vars, new_jobs, published, handed, target,
                   visited, purged, sh_vars, panics>>

\* visit_set_new_prev_hash up to the store, driven by a server that announces
\* every new block at a height above the block before (the first one is the
\* one announced before any job was handed over).
VisitSetNewPrevHashStoreAscending ==
    /\ VisitSetNewPrevHashStore
    /\ \/ published = {}
       \/ prevhash_msg'.block_height > current_block_height

\* The jobs visit_set_new_prev_hash hands to job_sender.send for one entry.
JobsSent(job_msg, prevhash) == <<StratumJob_new(job_msg, prevhash)>>

\* visit_set_new_prev_hash, after the store: the pending entry of that height
\* is removed, made a job and sent, and the retain pass purges the table;
\* without an entry the handler panics before the purge, and so does
\* StratumJob::new, after the entry was removed, when its assertion fails or
\* when max_time overflows in a build that checks overflow.
VisitSetNewPrevHashPromote ==
    /\ eh_pc = "stored"
    /\ \E o \in PanicOutcomes :
         LET h == prevhash_msg.block_height IN
         IF h \in DOMAIN new_jobs
         THEN LET removed == HashMap_remove(new_jobs, h) IN
              IF ~StratumJob_new_asserts(new_jobs[h], prevhash_msg)
              THEN /\ EhPanics(o, "assertion failed: left == right")
                   /\ new_jobs' = removed
                   /\ UNCHANGED <<published, handed, purged>>
              ELSE IF /\ env.overflow_checks
                      /\ StratumJob_new_overflows(prevhash_msg)
              THEN /\ EhPanics(o, OverflowPanic)
                   /\ new_jobs' = removed
                   /\ UNCHANGED <<published, handed, purged>>
              ELSE /\ handed' = JobsSent(new_jobs[h], prevhash_msg)
                   /\ published' = published \cup
                        {handed'[i] : i \in 1..Len(handed')}
                   /\ new_jobs' = HashMap_retain(removed, h)
                   /\ purged' = purged \cup {k \in DOMAIN removed : k < h}
                   /\ eh_pc' = "next"
                   /\ UNCHANGED <<run_pc, panics>>
         ELSE /\ EhPanics(o, "cannot find any job for current block height")
              /\ UNCHANGED <<new_jobs, published, handed, purged>>
    /\ visited' = PrevHashVisit(prevhash_msg)
    /\ prevhash_msg' = NoMsg
    /\ UNCHANGED <<env, hs_vars, current_block_height, target, sh_vars>>

\* A conversion that yields no target.
Target_from_none(max_target) == NoTarget

\* The Target made of the message's max_target (into): the same 256-bit
\* number.
Target_from(max_target) == max_target

\* visit_set_target
VisitSetTarget ==
    /\ eh_pc = "next"
    /\ \E max_target \in MaxTargets :
         /\ target' = Target_from(max_target)
         /\ visited' = TargetVisit(max_target)
    /\ UNCHANGED <<env, run_pc, eh_pc, hs_vars, new_jobs, current_block_height,
                   prevhash_msg, published, handed, purged, sh_vars, panics>>

\* event_handler_task: the stream ends (the loop is left) or yields an
\* error (msg.unwrap() panics).
EventStreamEnds ==
    /\ eh_pc = "next"
    /\ \E ok \in BOOLEAN, o \in PanicOutcomes :
         IF ok
         THEN /\ eh_pc' = "ended"
              /\ UNCHANGED <<run_pc, panics>>
         ELSE EhPanics(o, "called Result::unwrap() on an Err value")
    /\ UNCHANGED <<env, hs_vars, eh_vars, sh_vars>>

\* ------------------------------------------------------ solution handler
\* u32::saturating_add, which stops at the largest u32.
saturating_add(a, b) ==
    IF a[1] + b[1] + ((a[2] + b[2]) \div Limb) >= Limb
    THEN U32Max ELSE U32Add(a, b)

\* u32::wrapping_add
wrapping_add(a, b) == U32Add(a, b)

\* A counter that is not advanced.
NextSeqNum_same(counter) == counter

\* The sequence number process_solution gives the message, and the counter
\* it leaves behind.
SeqNumOf(counter) == counter
NextSeqNum(counter) == wrapping_add(counter, U32Of(1))

\* The SubmitShares message process_solution builds.
SubmitShares(solution, seq) ==
    [channel_id |-> solution.job.channel_id,
     seq_num |-> seq,
     job_id |-> solution.job.id,
     nonce |-> solution.nonce]

\* StratumSolutionHandler::run takes the next solution, and process_solution
\* numbers it and builds its message, up to the await of the send.
SolutionReceive ==
    /\ run_pc = "receive"
    /\ source = "open"
    /\ Len(taken) < MaxSolutions
    /\ \E job \in published, nonce \in env.nonces :
         LET solution == [job |-> job, nonce |-> nonce] IN
         /\ taken' = Append(taken, solution)
         /\ share_msg' = SubmitShares(solution, SeqNumOf(seq_num))
    /\ seq_num' = NextSeqNum(seq_num)
    /\ run_pc' = "send"
    /\ UNCHANGED <<env, eh_pc, hs_vars, eh_vars, source, sent, panics>>

\* process_solution: the send completes, or fails and panics.
SolutionSend ==
    /\ run_pc = "send"
    /\ \E ok \in BOOLEAN, o \in PanicOutcomes :
         IF ok
         THEN /\ sent' = Append(sent, share_msg)
              /\ share_msg' = NoMsg
              /\ run_pc' = "receive"
              /\ UNCHANGED <<eh_pc, panics>>
         ELSE /\ RunPanics(o, "Cannot send submit to stratum server")
              /\ UNCHANGED <<sent, share_msg>>
    /\ UNCHANGED <<env, hs_vars, eh_vars, source, seq_num, taken>>

\* The work hub closes the solution source, for good.  The solution handler
\* sees it at its next receive only, so a source closed before the handler
\* runs is the same as one closed at its first receive.
SolutionSourceCloses ==
    /\ run_pc \in {"receive", "send"}
    /\ source = "open"
    /\ source' = "closed"
    /\ UNCHANGED <<env, run_pc, eh_pc, hs_vars, eh_vars, seq_num, taken,
                   share_msg, sent, panics>>

\* A receive that stays pending on the closed source.
SolutionReceiveNone_pending ==
    /\ run_pc = "receive"
    /\ source = "closed"
    /\ UNCHANGED vars

\* StratumSolutionHandler::run: receive yields None on the closed source, the
\* loop is left and run() returns.
SolutionReceiveNone ==
    /\ run_pc = "receive"
    /\ source = "closed"
    /\ run_pc' = "returned"
    /\ UNCHANGED <<env, eh_pc, hs_vars, eh_vars, sh_vars, panics>>

\* ---------------------------------------------------------- specification
\* The messages the job of height 0 and id 5 is built from.
FirstJobMsg ==
    CHOOSE m \in NewMiningJob({0}, {5}) : TRUE

FirstPrevHash ==
    CHOOSE m \in SetNewPrevHash({0}, {U32Of(1000)}) : TRUE

\* A session that has run for 2^32 - 1 solutions: the handshake was
\* accepted, the job of height 0 is out, the counter has reached its
\* largest value.  taken and sent start empty here: they record the
\* solutions from this state on.
LongRunning ==
    /\ run_pc = "receive"
    /\ eh_pc = "next"
    /\ requests = <<"SetupMiningConnection", "OpenChannel">>
    /\ responses = <<"SetupMiningConnectionSuccess", "OpenChannelSuccess">>
    /\ results = <<"Ok", "Ok">>
    /\ new_jobs = EmptyTable
    /\ current_block_height = 0
    /\ prevhash_msg = NoMsg
    /\ published = {StratumJob_new(FirstJobMsg, FirstPrevHash)}
    /\ handed = JobsSent(FirstJobMsg, FirstPrevHash)
    /\ target = NoTarget
    /\ visited = [kind |-> "SetNewPrevHash", msg |-> FirstPrevHash,
                  announced |-> TRUE]
    /\ purged = {}
    /\ source = "open"
    /\ seq_num = U32Max
    /\ taken = <<>>
    /\ share_msg = NoMsg
    /\ sent = <<>>
    /\ panics = {}

InitWrap == env = EnvWrap /\ (Start \/ LongRunning)

Handshake ==
    \/ Connect
    \/ SetupMiningConnectionSend
    \/ SetupMiningConnectionRecv
    \/ OpenChannelSend
    \/ OpenChannelRecv

\* The whole session.
Next ==
    \/ Handshake
    \/ VisitNewMiningJob
    \/ VisitSetNewPrevHashStore
    \/ VisitSetNewPrevHashPromote
    \/ VisitSetTarget
    \/ EventStreamEnds
    \/ SolutionReceive
    \/ SolutionSend
    \/ SolutionSourceCloses
    \/ SolutionReceiveNone

Spec == Init /\ [][Next]_vars

\* The session as the server drives it: the handshake and the event handler
\* task on job and new-block announcements, with a solution source that
\* yields nothing and may close.
NextEvents ==
    \/ Handshake
    \/ VisitNewMiningJob
    \/ VisitSetNewPrevHashStore
    \/ VisitSetNewPrevHashPromote
    \/ EventStreamEnds
    \/ SolutionSourceCloses
    \/ SolutionReceiveNone

SpecEvents == InitEvents /\ [][NextEvents]_vars

\* The same with minimum times whose max_time overflows, in either build.
SpecOverflow == InitOverflow /\ [][NextEvents]_vars

\* The session as a server drives it whose new blocks come at ascending
\* heights.
NextAscending ==
    \/ Handshake
    \/ VisitNewMiningJob
    \/ VisitSetNewPrevHashStoreAscending
    \/ VisitSetNewPrevHashPromote
    \/ EventStreamEnds
    \/ SolutionSourceCloses
    \/ SolutionReceiveNone

SpecAscending == InitEvents /\ [][NextAscending]_vars

\* The session with both tasks at work: the handshake, the event handler
\* task on job and new-block announcements, and the solution handler.
NextSession ==
    \/ Handshake
    \/ VisitNewMiningJob
    \/ VisitSetNewPrevHashStore
    \/ VisitSetNewPrevHashPromote
    \/ EventStreamEnds
    \/ SolutionReceive
    \/ SolutionSend
    \/ SolutionSourceCloses
    \/ SolutionReceiveNone

SpecSession == InitSession /\ [][NextSession]_vars

\* The same, from the start of run() and from a session whose sequence
\* counter is about to wrap.
SpecWrap == InitWrap /\ [][NextSession]_vars

\* What the runtime guarantees of the two tasks: a task that can go on by
\* itself is polled again.  The handler that has stored the new height goes
\* on to the lookup (straight-line code), the send of a share completes or
\* fails, and a receive on the closed source returns.  Nothing is guaranteed
\* of the peers: the server need not answer or send, the work hub need not
\* yield solutions or close the source.
Fairness ==
    /\ WF_vars(VisitSetNewPrevHashPromote)
    /\ WF_vars(SolutionSend)
    /\ WF_vars(SolutionReceiveNone)

\* The session with both tasks at work, as the runtime schedules it.
SpecLive == Init /\ [][NextSession]_vars /\ Fairness

\* ----------------------------------------------------------------- properties
\* A step that ends a visit of a new-block announcement: the lookup, and
\* then the hand-off and the purge, or the panic.
PromoteStep == prevhash_msg # NoMsg /\ prevhash_msg' = NoMsg

MissingJobPanic == "cannot find any job for current block height"

\* C1: a new-block announcement for height h visited right after a job
\* announcement for h hands exactly one Job to the job sender, and that Job
\* has block height h.
C1_OneJobPerNewBlock ==
    [][(/\ PromoteStep
        /\ visited.kind = "NewMiningJob"
        /\ visited.msg.block_height = prevhash_msg.block_height)
       => (/\ eh_pc' = "next"
           /\ Len(handed') = 1
           /\ handed'[1].block_height = prevhash_msg.block_height
           /\ published' = published \cup {handed'[1]})]_vars

\* C2: in every reachable state every Job built in the session is valid
\* exactly when its block height is at least the value of the shared cell.
C2_ValidIffNotBelowCell ==
    \A job \in published :
        is_valid(job, current_block_height)
            <=> job.block_height >= current_block_height

\* One job handed over is valid and another is not.
C2_Witness ==
    \E fresh \in published, stale \in published :
        /\ is_valid(fresh, current_block_height)
        /\ ~is_valid(stale, current_block_height)

\* C3: once the shared cell holds a value above a Job's block height, the
\* Job is invalid from then on: the cell never moves back to or below that
\* height.
C3_MonotonicFreshness ==
    [][\A job \in published :
          (current_block_height > job.block_height)
          => (/\ current_block_height' > job.block_height
              /\ ~is_valid(job, current_block_height'))]_vars

\* C4: the solutions are submitted in the order they were taken, the n-th
\* with sequence number n modulo 2^32, without gap, repeat or reordering,
\* whatever the event handler does in between.  start is the number of
\* solutions taken before the first one recorded.
C4_SequenceNumbers ==
    \E start \in {U32Of(0), U32Max} :
        /\ seq_num = U32Add(start, U32Of(Len(taken)))
        /\ Len(sent) <= Len(taken)
        /\ Len(taken) <= Len(sent) + 1
        /\ \A i \in 1..Len(sent) :
              sent[i] = SubmitShares(taken[i], U32Add(start, U32Of(i - 1)))
        /\ run_pc = "receive" => Len(taken) = Len(sent)
        /\ run_pc = "send"
              => /\ Len(taken) = Len(sent) + 1
                 /\ share_msg = SubmitShares(taken[Len(taken)],
                                    U32Add(start, U32Of(Len(sent))))

\* Two different solutions were submitted in order across the wrap of the
\* counter: the first with 2^32 - 1, the second with 0.
C4_Witness ==
    /\ Len(sent) = 2
    /\ sent[1].seq_num = U32Max
    /\ sent[2].seq_num = U32Of(0)
    /\ taken[1] # taken[2]

\* The kinds of response that are an explicit error or are not recognized.
RejectingKinds ==
    {"SetupMiningConnectionError", "OpenChannelError", "Other"}

\* C5: the channel-open request is sent only after the connection setup was
\* accepted; the two tasks start only after both steps were accepted; an
\* error or an unrecognized response rejects the step, and then no further
\* request is sent, no job is handed over and no solution is submitted.
C5_HandshakeOrdering ==
    /\ Len(requests) <= 2
    /\ Len(requests) >= 1 => requests[1] = "SetupMiningConnection"
    /\ Len(requests) = 2
          => /\ requests[2] = "OpenChannel"
             /\ Len(results) >= 1
             /\ results[1] = "Ok"
    /\ (\/ eh_pc \notin {"unspawned", "aborted"}
        \/ run_pc \in {"receive", "send", "returned"}
        \/ published # {}
        \/ taken # <<>>
        \/ sent # <<>>)
          => results = <<"Ok", "Ok">>
    /\ \A i \in 1..Len(results) :
          /\ responses[i] \in RejectingKinds => results[i] = "Err"
          /\ results[i] = "Err"
                => /\ Len(requests) = i
                   /\ Len(results) = i
                   /\ run_pc \in {"panicked", "aborted"}
                   /\ eh_pc \in {"unspawned", "aborted"}
                   /\ published = {}
                   /\ taken = <<>>
                   /\ sent = <<>>

\* The connection setup was accepted and the channel open was answered with
\* a message the handler does not recognize: run() has stopped.
C5_Witness ==
    /\ results = <<"Ok", "Err">>
    /\ responses[2] = "Other"
    /\ requests = <<"SetupMiningConnection", "OpenChannel">>
    /\ run_pc \in {"panicked", "aborted"}

\* The success message that matches each handshake step.
MatchingSuccess(step) ==
    IF step = 1 THEN "SetupMiningConnectionSuccess" ELSE "OpenChannelSuccess"

\* C6: a handshake step is accepted only on the success message of its own
\* kind; the success message of the other step leaves it rejected.
C6_MatchingKindOnly ==
    \A i \in 1..Len(results) :
        results[i] = "Ok" => responses[i] = MatchingSuccess(i)

\* C7: once a new-block announcement has found no pending job, the session
\* has ended for that cause: no job is handed over and no solution is taken
\* or submitted from then on.
C7_MissingJobEndsSession ==
    [][(MissingJobPanic \in panics)
       => (/\ published' = published
           /\ handed' = handed
           /\ taken' = taken
           /\ sent' = sent)]_vars

\* C8: the shared cell holds the new height before the job of a new-block
\* announcement is handed over and still holds it afterwards, so the jobs
\* of lower height are invalid before the new job can be seen.
C8_HeightStoredFirst ==
    [][PromoteStep
       => (LET h == prevhash_msg.block_height IN
           /\ current_block_height = h
           /\ current_block_height' = h
           /\ \A job \in published :
                 job.block_height < h => ~is_valid(job, current_block_height)
           /\ (eh_pc' = "next")
                 => (\A i \in 1..Len(handed') : handed'[i].block_height = h))]_vars

\* The job of a new-block announcement is out, the cell holds its height and
\* an older job of lower height is invalid.
C8_Witness ==
    /\ eh_pc = "next"
    /\ visited.kind = "SetNewPrevHash"
    /\ Len(handed) = 1
    /\ handed[1].block_height = visited.msg.block_height
    /\ current_block_height = visited.msg.block_height
    /\ \E job \in published :
          /\ job.block_height < current_block_height
          /\ ~is_valid(job, current_block_height)

\* C9: when a new-block announcement for height h has been visited, the
\* pending table holds no entry below h, and an entry that was below h then
\* is never made a job (purged holds the heights of those entries until the
\* height is announced again).
C9_PurgedNeverPromoted ==
    [][(/\ purged' \cap DOMAIN new_jobs' = {}
        /\ (PromoteStep /\ eh_pc' = "next")
              => (/\ \A k \in DOMAIN new_jobs' :
                        k >= prevhash_msg.block_height
                  /\ prevhash_msg.block_height \notin purged
                  /\ {k \in DOMAIN new_jobs : k < prevhash_msg.block_height}
                        \subseteq purged'))]_vars

\* A new-block announcement has purged a lower pending entry.
C9_Witness ==
    /\ eh_pc = "next"
    /\ visited.kind = "SetNewPrevHash"
    /\ \E k \in purged : k < visited.msg.block_height
    /\ \A k \in DOMAIN new_jobs : k >= visited.msg.block_height

\* C10: a job announcement for a height that is pending replaces the entry:
\* the table holds the latest announcement under that height and every
\* other entry is as before; a new-block announcement for that height that
\* follows hands over a job with the latest announcement's fields.
C10_ReannouncementReplaces ==
    [][(/\ (visited' # visited /\ visited'.kind = "NewMiningJob")
              => (LET m == visited'.msg IN
                  new_jobs' = [k \in DOMAIN new_jobs \cup {m.block_height} |->
                                  IF k = m.block_height THEN m ELSE new_jobs[k]])
        /\ (/\ PromoteStep
            /\ visited.kind = "NewMiningJob"
            /\ visited.msg.block_height = prevhash_msg.block_height)
              => (/\ Len(handed') = 1
                  /\ handed'[1].id = visited.msg.job_id
                  /\ handed'[1].channel_id = visited.msg.channel_id
                  /\ handed'[1].version = visited.msg.version
                  /\ handed'[1].merkle_root = visited.msg.merkle_root))]_vars

\* run() is over: it has returned or panicked, or the process was aborted.
RunEnded == run_pc \in {"returned", "panicked", "aborted"}

\* The send of a share has failed.
SendFailed == "Cannot send submit to stratum server" \in panics

\* C11: when the inbound activity has stopped (the stream is closed, or the
\* event handler task has died of an error), run() eventually ends: the
\* solution handler does not keep the session running.
C11_InboundEndEndsSession ==
    (eh_pc \in {"ended", "panicked"}) ~> RunEnded

\* At the return of run() no send has failed, and the solutions taken were
\* submitted once each, in order.
ReturnsClean ==
    (run_pc = "returned")
        => (/\ ~SendFailed
            /\ share_msg = NoMsg
            /\ Len(sent) = Len(taken)
            /\ \A i \in 1..Len(sent) :
                  /\ sent[i].job_id = taken[i].job.id
                  /\ sent[i].nonce = taken[i].nonce
                  /\ sent[i].seq_num = U32Of(i - 1))

C13_TargetOnly ==
    [][(visited' # visited /\ visited'.kind = "SetTarget")
       => (/\ target' = visited'.msg
           /\ UNCHANGED <<new_jobs, current_block_height, prevhash_msg,
                          published, handed, purged>>
           /\ UNCHANGED <<run_pc, eh_pc, hs_vars, sh_vars, panics>>)]_vars

\* A target change was visited in a session with a pending entry, a job
\* handed over, the cell at height 1 and a solution numbered.
C13_Witness ==
    /\ visited.kind = "SetTarget"
    /\ target = visited.msg
    /\ target = "T2"
    /\ DOMAIN new_jobs # {}
    /\ published # {}
    /\ current_block_height = 1
    /\ seq_num = U32Of(1)

\* A u32 and the sum of a u32 and a small natural number as numbers of three
\* limbs, wide enough for a sum above 2^32 - 1.
Wide(a) == <<0, a[1], a[2]>>

WideSum(a, n) ==
    LET low == a[2] + n
        high == a[1] + (low \div Limb)
    IN  <<high \div Limb, high % Limb, low % Limb>>

\* C14: the Job built from a pending job announcement and its new-block
\* announcement has time = min_ntime and max_time = min_ntime +
\* max_ntime_offset, whatever the two are (their sum may exceed 2^32 - 1),
\* the id, channel id, version and block height of the job announcement and
\* the bits of the new-block announcement.
C14_JobTimes ==
    [][(PromoteStep /\ prevhash_msg.block_height \in DOMAIN new_jobs)
       => (LET job_msg == new_jobs[prevhash_msg.block_height]
               job == handed'[1]
           IN  /\ eh_pc' = "next"
               /\ Len(handed') = 1
               /\ job.time = prevhash_msg.min_ntime
               /\ Wide(job.max_time)
                     = WideSum(prevhash_msg.min_ntime,
                               prevhash_msg.max_ntime_offset)
               /\ job.id = job_msg.job_id
               /\ job.channel_id = job_msg.channel_id
               /\ job.version = job_msg.version
               /\ job.block_height = job_msg.block_height
               /\ job.bits = prevhash_msg.nbits)]_vars

\* C15: when a new-block announcement for height h has been visited and its
\* job handed over, the pending table is the table of before restricted to
\* the heights above h: the entry of h and the lower entries are gone, the
\* higher entries are as they were, whatever the order they were inserted
\* in; and the job a new-block announcement hands over is made of the entry
\* kept under its height.
C15_TableAfterPromote ==
    [][(PromoteStep /\ eh_pc' = "next")
       => (LET h == prevhash_msg.block_height IN
           /\ new_jobs' = [k \in {j \in DOMAIN new_jobs : j > h} |->
                              new_jobs[k]]
           /\ h \in DOMAIN new_jobs
           /\ handed' = <<StratumJob_new(new_jobs[h], prevhash_msg)>>)]_vars

\* The new-block announcement for height 1 has handed over its job, the
\* entry of height 0 was purged and the entry of height 2 is still pending.
C15_Witness ==
    /\ eh_pc = "next"
    /\ visited.kind = "SetNewPrevHash"
    /\ visited.msg.block_height = 1
    /\ Len(handed) = 1
    /\ handed[1].block_height = 1
    /\ 0 \in purged
    /\ DOMAIN new_jobs = {2}

\* The message of the panic of the assert_eq! of StratumJob::new.
AssertionPanic == "assertion failed: left == right"

\* C16: the assertion of StratumJob::new never fails: every pending entry
\* is filed under its own announcement's block height, so the entry looked
\* up under a new-block announcement's height agrees with it on the height.
C16_AssertionNeverFails ==
    /\ AssertionPanic \notin panics
    /\ \A k \in DOMAIN new_jobs : new_jobs[k].block_height = k
    /\ (eh_pc = "stored" /\ prevhash_msg.block_height \in DOMAIN new_jobs)
          => StratumJob_new_asserts(new_jobs[prevhash_msg.block_height],
                                    prevhash_msg)

\* A new-block announcement has found its entry and StratumJob::new has
\* built the job, with other entries pending.
C16_Witness ==
    /\ eh_pc = "next"
    /\ visited.kind = "SetNewPrevHash"
    /\ Len(handed) = 1
    /\ handed[1].block_height = visited.msg.block_height
    /\ handed[1].block_height = current_block_height
    /\ DOMAIN new_jobs # {}

\* The jobs handed over that are valid now.
ValidJobs == {job \in published : is_valid(job, current_block_height)}

\* C17 as stated: with new blocks announced at ascending heights, in every
\* state after the first job was handed over exactly one job handed over is
\* valid, the latest one.
C17_ExactlyLatestValid ==
    (published # {}) => (ValidJobs = {handed[1]})

\* C17, amended: with new blocks announced at ascending heights, no job
\* handed over but the latest one is valid; the latest one is valid while
\* the event handler is between announcements or has left its loop, and no
\* job at all is valid from the store of a later height on until that
\* announcement's job is handed over, which never happens when it finds no
\* pending job.
C17_AtMostLatestValid ==
    (published # {})
        => (/\ Len(handed) = 1
            /\ ValidJobs \subseteq {handed[1]}
            /\ (eh_pc \in {"next", "ended"}) => (ValidJobs = {handed[1]})
            /\ (current_block_height > handed[1].block_height)
                  => (/\ ValidJobs = {}
                      /\ eh_pc \in {"stored", "panicked", "aborted"}))

\* Two jobs were handed over and the event handler waits for the next
\* announcement: the latest job is valid and the earlier one is not.
C17_Witness ==
    /\ eh_pc = "next"
    /\ Cardinality(published) = 2
    /\ ValidJobs = {handed[1]}
    /\ \E job \in published : ~is_valid(job, current_block_height)

\* C18: a pending announcement is made a job at most once, and only a
\* new-block announcement hands jobs over.  Only the visit of a new-block
\* announcement changes the jobs handed over; the visit that hands over the
\* job of height h leaves no entry for h; an entry for a height appears only
\* by a job announcement for that height; so a second new-block
\* announcement for h without a job announcement for h in between finds no
\* entry: it panics and hands over nothing.
C18_PromotedAtMostOnce ==
    [][(LET h == prevhash_msg.block_height IN
        /\ ~PromoteStep => UNCHANGED <<published, handed>>
        /\ \A k \in DOMAIN new_jobs' \ DOMAIN new_jobs :
              /\ visited'.kind = "NewMiningJob"
              /\ visited'.msg.block_height = k
        /\ (PromoteStep /\ eh_pc' = "next")
              => (h \in DOMAIN new_jobs /\ h \notin DOMAIN new_jobs')
        /\ (PromoteStep /\ h \notin DOMAIN new_jobs)
              => (/\ MissingJobPanic \in panics'
                  /\ eh_pc' \in {"panicked", "aborted"}
                  /\ UNCHANGED <<published, handed>>)
        /\ (/\ PromoteStep
            /\ visited.kind = "SetNewPrevHash"
            /\ visited.msg.block_height = h)
              => (h \notin DOMAIN new_jobs))]_vars

\* The job of a height was handed over, and a later new-block announcement
\* for the same height has found no entry and panicked.
C18_Witness ==
    /\ MissingJobPanic \in panics
    /\ eh_pc = "panicked"
    /\ visited.kind = "SetNewPrevHash"
    /\ Len(handed) = 1
    /\ handed[1].block_height = visited.msg.block_height
    /\ Cardinality(published) = 1

\* C19: a new-block announcement for height h that finds no pending entry
\* for h does not leave the state as it was: the shared cell holds h when
\* the handler panics, so every job handed over with a height below h is
\* invalid though no job replaces it; the pending table is not purged.
C19_MissingJobStillStores ==
    [][(PromoteStep /\ prevhash_msg.block_height \notin DOMAIN new_jobs)
       => (LET h == prevhash_msg.block_height IN
           /\ MissingJobPanic \in panics'
           /\ current_block_height' = h
           /\ \A job \in published' :
                 job.block_height < h => ~is_valid(job, current_block_height')
           /\ UNCHANGED <<published, handed>>
           /\ new_jobs' = new_jobs)]_vars

\* The handler has panicked on a new-block announcement without pending
\* job: the cell holds its height, a job handed over before is invalid now
\* and a lower entry is still pending.
C19_Witness ==
    /\ MissingJobPanic \in panics
    /\ eh_pc = "panicked"
    /\ visited.kind = "SetNewPrevHash"
    /\ current_block_height = visited.msg.block_height
    /\ \E job \in published :
          /\ job.block_height < current_block_height
          /\ ~is_valid(job, current_block_height)
    /\ \E k \in DOMAIN new_jobs : k < current_block_height

\* C20: the solution handler does not look at the validity of the job: every
\* solution taken, of a valid job or not, gets a message with its job's
\* channel id and job id and the next sequence number, the counter advances
\* by one, and the send that completes transmits that message.
C20_NoValidityCheck ==
    [][(/\ (taken' # taken)
              => (LET solution == taken'[Len(taken')] IN
                  /\ taken' = Append(taken, solution)
                  /\ share_msg' = [channel_id |-> solution.job.channel_id,
                                    seq_num |-> seq_num,
                                    job_id |-> solution.job.id,
                                    nonce |-> solution.nonce]
                  /\ seq_num' = U32Add(seq_num, U32Of(1))
                  /\ run_pc' = "send")
        /\ (run_pc = "send" /\ run_pc' = "receive")
              => (/\ sent' = Append(sent, share_msg)
                  /\ UNCHANGED <<seq_num, taken>>))]_vars

\* A solution of a job that is invalid (the cell is above its height) was
\* submitted after a solution of a valid job, with the sequence number that
\* follows.
C20_Witness ==
    /\ Len(sent) = 2
    /\ run_pc = "receive"
    /\ is_valid(taken[1].job, current_block_height)
    /\ ~is_valid(taken[2].job, current_block_height)
    /\ taken[2].job.block_height < taken[1].job.block_height
    /\ sent[2].job_id = taken[2].job.id
    /\ sent[2].channel_id = taken[2].job.channel_id
    /\ sent[2].seq_num = U32Add(sent[1].seq_num, U32Of(1))

=============================================================================
